---------------------------- MODULE Spec2Model ----------------------------
(***************************************************************************)
(* A model of src/main.py: the privacy-policy extraction pipeline.         *)
(*                                                                         *)
(* Texts are sequences of characters; a character is a one-symbol string.  *)
(* The module is ASCII, so the non-ASCII characters and literals of the    *)
(* source are written by name:                                             *)
(*    "DUN"    the ideographic comma U+3001                                *)
(*    "FWDOT"  the fullwidth full stop U+FF0E                              *)
(*    "FWLP", "FWRP"  the fullwidth parentheses U+FF08, U+FF09             *)
(*    "CN1", "CN2"    Chinese numerals (of the class U+4E00 ... U+5341)    *)
(*    "BT"            the backquote U+0060                                *)
(*    "L1", "L2"      the keys "yi ji lei bie" and "er ji lei bie"         *)
(*    "U"             the sentinel category "wei fen lei"                  *)
(* Python values are records [t, s, items, keys] (see PStr .. PDict); None *)
(* is PNone.                                                               *)
(***************************************************************************)
EXTENDS Naturals, Sequences, FiniteSets, TLC

VARIABLES
    \* extract_first_json / robust_json_loads applied to one text
    jpc, jbody, jtext, jres, jloaded,
    \* detect_min_level / split_by_detected_level applied to one document
    spc, doc, min_level, sparas,
    \* process_policies: the input rows and the replies the oracle can give
    rows, oracle,
    \* process_policies: position, locals of the loops, outputs
    pc, row, paragraphs, idx, calls, scene_tags, entities, attempts, classified,
    entity_list, relations_raw, processed_content, results, final_results,
    failed, files

jsonVars == <<jpc, jbody, jtext, jres, jloaded>>
splitVars == <<spc, doc, min_level, sparas>>
inputVars == <<rows, oracle>>
paraVars == <<scene_tags, entities, attempts, classified, entity_list, relations_raw>>
pipeVars == <<rows, oracle, pc, row, paragraphs, idx, calls, scene_tags, entities, attempts,
              classified, entity_list, relations_raw, processed_content, results,
              final_results, failed, files>>
vars == <<jsonVars, splitVars, pipeVars>>

---------------------------------------------------------------------------
(* Sequences *)

\* text[a:b] of Python for 0 <= a, b <= len(text), written with 1-based
\* positions: the characters a+1 .. b.
Slice(s, a, b) == IF b <= a THEN <<>> ELSE SubSeq(s, a + 1, b)

RECURSIVE SeqsUpTo(_, _)
SeqsUpTo(S, n) ==
    IF n = 0 THEN {<<>>}
    ELSE LET shorter == SeqsUpTo(S, n - 1)
         IN  shorter \cup {Append(q, c) : q \in {r \in shorter : Len(r) = n - 1}, c \in S}

Range(s) == {s[k] : k \in 1..Len(s)}

---------------------------------------------------------------------------
(* Python values *)

PNone == [t |-> "none", s |-> <<>>, items |-> <<>>, keys |-> <<>>]
PStr(chars) == [t |-> "str", s |-> chars, items |-> <<>>, keys |-> <<>>]
PNum(digits) == [t |-> "num", s |-> digits, items |-> <<>>, keys |-> <<>>]
PList(xs) == [t |-> "list", s |-> <<>>, items |-> xs, keys |-> <<>>]
\* a dict in insertion order: keys[k] (a str's characters) maps to items[k]
PDict(ks, vs) == [t |-> "dict", s |-> <<>>, items |-> vs, keys |-> ks]

\* Python truthiness of a value
Truthy(v) ==
    CASE v.t = "none" -> FALSE
      [] v.t = "str"  -> v.s # <<>>
      [] v.t = "num"  -> \E k \in 1..Len(v.s) : v.s[k] # "0"
      [] OTHER        -> v.items # <<>>

\* k in d, d[k], d.get(k, default) for a dict d and a str's characters k
HasKey(d, k) == \E n \in 1..Len(d.keys) : d.keys[n] = k
DictGet(d, k, default) ==
    IF HasKey(d, k)
    THEN d.items[CHOOSE n \in 1..Len(d.keys) : d.keys[n] = k]
    ELSE default
\* d[k] = v
DictPut(d, k, v) ==
    IF HasKey(d, k)
    THEN PDict(d.keys, [d.items EXCEPT ![CHOOSE n \in 1..Len(d.keys) : d.keys[n] = k] = v])
    ELSE PDict(Append(d.keys, k), Append(d.items, v))

---------------------------------------------------------------------------
(* str.strip *)

IsSpace(c) == c \in {" ", "\n", "\t", "\r"}

RECURSIVE LStripSet(_, _)
LStripSet(s, S) == IF s # <<>> /\ Head(s) \in S THEN LStripSet(Tail(s), S) ELSE s

RECURSIVE RStripSet(_, _)
RStripSet(s, S) ==
    IF s # <<>> /\ s[Len(s)] \in S THEN RStripSet(SubSeq(s, 1, Len(s) - 1), S) ELSE s

StripSet(s, S) == RStripSet(LStripSet(s, S), S)

\* s.strip()
Strip(s) == StripSet(s, {" ", "\n", "\t", "\r"})

---------------------------------------------------------------------------
(* extract_first_json, main.py 220-243 *)

NoJson == [none |-> TRUE, str |-> <<>>]
SomeJson(s) == [none |-> FALSE, str |-> s]

Lower(c) ==
    CASE c = "J" -> "j" [] c = "S" -> "s" [] c = "O" -> "o" [] c = "N" -> "n"
      [] OTHER -> c

StartsWithFold(s, p) ==
    /\ Len(s) >= Len(p)
    /\ \A k \in 1..Len(p) : Lower(s[k]) = p[k]

\* re.sub(r"^```(?:json)?", "", s, flags=re.IGNORECASE): without re.MULTILINE
\* the pattern matches at the start of s only.
StripFenceOpen(s) ==
    IF StartsWithFold(s, <<"BT", "BT", "BT", "j", "s", "o", "n">>) THEN Slice(s, 7, Len(s))
    ELSE IF StartsWithFold(s, <<"BT", "BT", "BT">>) THEN Slice(s, 3, Len(s))
    ELSE s

\* line 225
Unfence(text) == StripSet(StripFenceOpen(Strip(text)), {"BT", " ", "\n"})

\* str.find of a single character, 1-based; 0 when absent
Find(s, c) ==
    IF \E k \in 1..Len(s) : s[k] = c
    THEN CHOOSE k \in 1..Len(s) : s[k] = c /\ \A m \in 1..(k - 1) : s[m] # c
    ELSE 0

\* the smaller of two results of str.find that is not "absent"
FirstFound(a, b) == IF a = 0 THEN b ELSE IF b = 0 THEN a ELSE IF a < b THEN a ELSE b

\* line 227
FirstOpen(t) == FirstFound(Find(t, "{"), Find(t, "["))

\* lines 231-243: the scan from position i with the given stack; the
\* position of the closing character of the outermost structure, or 0.
RECURSIVE ScanBrackets(_, _, _)
ScanBrackets(t, i, stack) ==
    IF i > Len(t) THEN 0
    ELSE IF t[i] \in {"{", "["} THEN ScanBrackets(t, i + 1, Append(stack, t[i]))
    ELSE IF t[i] \in {"]", "}"} THEN
        IF stack = <<>> THEN 0
        ELSE LET last == stack[Len(stack)]
                 rest == SubSeq(stack, 1, Len(stack) - 1)
             IN  IF (last = "{" /\ t[i] # "}") \/ (last = "[" /\ t[i] # "]") THEN 0
                 ELSE IF rest = <<>> THEN i
                 ELSE ScanBrackets(t, i + 1, rest)
    ELSE ScanBrackets(t, i + 1, stack)

\* line 242 as it would be with text[start:i]: the closing character is
\* left out
CutBeforeCloser(t, start, end) ==
    IF end = 0 THEN NoJson ELSE SomeJson(SubSeq(t, start, end - 1))

\* line 243 and the return None after the loop
CutAt(t, start, end) == IF end = 0 THEN NoJson ELSE SomeJson(SubSeq(t, start, end))

\* lines 228-243
ExtractAt(t, start) ==
    IF start = 0 THEN NoJson ELSE CutAt(t, start, ScanBrackets(t, start, <<>>))

\* lines 227-243, for the text line 225 made
ExtractFrom(t) == ExtractAt(t, FirstOpen(t))

extract_first_json(text) == ExtractFrom(Unfence(text))

---------------------------------------------------------------------------
(* json.loads (the standard library), on texts over the characters the     *)
(* model uses: objects, arrays, strings without escapes, unsigned integers *)

IsDigit(c) == c \in {"0", "1", "2", "3", "4", "5", "6", "7", "8", "9"}
IsJsonWs(c) == c \in {" ", "\n", "\t", "\r"}

ParseFail == [ok |-> FALSE, v |-> PNone, i |-> 0]
ParseOk(v, i) == [ok |-> TRUE, v |-> v, i |-> i]

RECURSIVE SkipWs(_, _)
SkipWs(s, i) == IF i <= Len(s) /\ IsJsonWs(s[i]) THEN SkipWs(s, i + 1) ELSE i

\* the position of the quote closing the string opened before i, or 0; a raw
\* control character or an escape ends the parse
RECURSIVE StringEnd(_, _)
StringEnd(s, i) ==
    IF i > Len(s) THEN 0
    ELSE IF s[i] = "\"" THEN i
    ELSE IF s[i] \in {"\n", "\t", "\r", "\\"} THEN 0
    ELSE StringEnd(s, i + 1)

StringFrom(s, i, e) ==
    IF e = 0 THEN ParseFail ELSE ParseOk(PStr(Slice(s, i, e - 1)), e + 1)

ParseString(s, i) == StringFrom(s, i, StringEnd(s, i + 1))

RECURSIVE DigitsEnd(_, _)
DigitsEnd(s, i) == IF i <= Len(s) /\ IsDigit(s[i]) THEN DigitsEnd(s, i + 1) ELSE i

\* an integer: 0, or digits not starting with 0 (after "0" the number ends)
NumberFrom(s, i, e) == ParseOk(PNum(Slice(s, i - 1, e - 1)), e)

ParseNumber(s, i) == NumberFrom(s, i, IF s[i] = "0" THEN i + 1 ELSE DigitsEnd(s, i))

RECURSIVE ParseValue(_, _), ParseElems(_, _, _), ParseMembers(_, _, _)

\* after "[" and white space, at j
ArrayFrom(s, j) ==
    IF j <= Len(s) /\ s[j] = "]" THEN ParseOk(PList(<<>>), j + 1)
    ELSE ParseElems(s, j, <<>>)

\* after "{" and white space, at j
ObjectFrom(s, j) ==
    IF j <= Len(s) /\ s[j] = "}" THEN ParseOk(PDict(<<>>, <<>>), j + 1)
    ELSE ParseMembers(s, j, PDict(<<>>, <<>>))

ParseValue(s, i) ==
    IF i > Len(s) THEN ParseFail
    ELSE IF s[i] = "[" THEN ArrayFrom(s, SkipWs(s, i + 1))
    ELSE IF s[i] = "{" THEN ObjectFrom(s, SkipWs(s, i + 1))
    ELSE IF s[i] = "\"" THEN ParseString(s, i)
    ELSE IF IsDigit(s[i]) THEN ParseNumber(s, i)
    ELSE ParseFail

\* after the element r, at j past the white space that follows it
ElemsAfter(s, acc, r, j) ==
    IF ~r.ok \/ j > Len(s) THEN ParseFail
    ELSE IF s[j] = "," THEN ParseElems(s, SkipWs(s, j + 1), Append(acc, r.v))
    ELSE IF s[j] = "]" THEN ParseOk(PList(Append(acc, r.v)), j + 1)
    ELSE ParseFail

ElemsWith(s, acc, r) == ElemsAfter(s, acc, r, SkipWs(s, r.i))

ParseElems(s, i, acc) == ElemsWith(s, acc, ParseValue(s, i))

\* after the member k : r, at j past the white space that follows it
MembersAfter(s, d, k, r, j) ==
    IF ~r.ok \/ j > Len(s) THEN ParseFail
    ELSE IF s[j] = "," THEN ParseMembers(s, SkipWs(s, j + 1), DictPut(d, k.v.s, r.v))
    ELSE IF s[j] = "}" THEN ParseOk(DictPut(d, k.v.s, r.v), j + 1)
    ELSE ParseFail

MembersWith(s, d, k, r) == MembersAfter(s, d, k, r, SkipWs(s, r.i))

\* after the key k, at c past the white space that follows it
MembersColon(s, d, k, c) ==
    IF ~k.ok \/ c > Len(s) \/ s[c] # ":" THEN ParseFail
    ELSE MembersWith(s, d, k, ParseValue(s, SkipWs(s, c + 1)))

MembersKey(s, d, k) == MembersColon(s, d, k, SkipWs(s, k.i))

ParseMembers(s, i, d) ==
    IF i > Len(s) \/ s[i] # "\"" THEN ParseFail
    ELSE MembersKey(s, d, ParseString(s, i))

Raised == [raised |-> TRUE, val |-> PNone]
Returned(v) == [raised |-> FALSE, val |-> v]

\* json.loads(s) for a str s: the value, or raised
\* the value parsed must be followed by white space only
LoadsEnd(s, r) == IF r.ok /\ SkipWs(s, r.i) > Len(s) THEN Returned(r.v) ELSE Raised

\* json.loads(s) for a str s: the value, or raised
json_loads(s) == LoadsEnd(s, ParseValue(s, SkipWs(s, 1)))

---------------------------------------------------------------------------
(* robust_json_loads, main.py 245-254 *)

\* json.loads(None) raises TypeError, and so does None[:500] in the handler
LoadsFragment(frag) == IF frag.none THEN Raised ELSE json_loads(frag.str)

robust_json_loads(json_str) == LoadsFragment(extract_first_json(json_str))

---------------------------------------------------------------------------
(* Regular expressions of detect_min_level and build_level_regex.  A       *)
(* position is 1-based; an End operator returns the position just past the *)
(* match, or 0 when there is none.                                         *)

Digits == {"0", "1", "2", "3", "4", "5", "6", "7", "8", "9"}
\* [DUN . FWDOT FWDOT]
Delims == {"DUN", ".", "FWDOT"}
\* the ten Chinese numerals of the character classes
CnNums == {"CN1", "CN2", "CN3", "CN4", "CN5", "CN6", "CN7", "CN8", "CN9", "CN10"}

CharAt(s, i) == IF i >= 1 /\ i <= Len(s) THEN s[i] ELSE "EOT"

\* X+ from position i, greedy, for a character class X; i when X+ matches nothing
RECURSIVE RunEnd(_, _, _)
RunEnd(s, i, X) == IF i <= Len(s) /\ s[i] \in X THEN RunEnd(s, i + 1, X) ELSE i

\* [delims]? from position i
OptDelimEnd(s, i) == IF CharAt(s, i) \in Delims THEN i + 1 ELSE i

\* (?:\.\d+)* from position j
RECURSIVE DottedEnd(_, _)
DottedEnd(s, j) ==
    IF CharAt(s, j) = "." /\ CharAt(s, j + 1) \in Digits
    THEN DottedEnd(s, RunEnd(s, j + 1, Digits))
    ELSE j

\* line 343: \d+(?:\.\d+)*[delims]?
NumTokenEnd(s, i) ==
    IF CharAt(s, i) \in Digits THEN OptDelimEnd(s, DottedEnd(s, RunEnd(s, i, Digits))) ELSE 0

\* lines 344, 345: open [CnNums \d]+ close
ParenClose(s, i, open, close, j) ==
    IF CharAt(s, i) = open /\ j > i + 1 /\ CharAt(s, j) = close THEN j + 1 ELSE 0

ParenTokenEnd(s, i, open, close) ==
    ParenClose(s, i, open, close, RunEnd(s, i + 1, CnNums \cup Digits))

\* line 346: [CnNums]+ DUN
CnClose(s, i, j) == IF j > i /\ CharAt(s, j) = "DUN" THEN j + 1 ELSE 0

CnTokenEnd(s, i) == CnClose(s, i, RunEnd(s, i, CnNums))

\* the four patterns of lines 342-347, by index
TokenEnd(pat, s, i) ==
    CASE pat = 1 -> NumTokenEnd(s, i)
      [] pat = 2 -> ParenTokenEnd(s, i, "(", ")")
      [] pat = 3 -> ParenTokenEnd(s, i, "FWLP", "FWRP")
      [] OTHER   -> CnTokenEnd(s, i)

\* re.findall(pat, s): the matched texts, leftmost first, not overlapping
RECURSIVE FindAll(_, _, _), FindAllFrom(_, _, _, _)
FindAll(pat, s, i) ==
    IF i > Len(s) THEN <<>> ELSE FindAllFrom(pat, s, i, TokenEnd(pat, s, i))

\* e: where the match at i ends, 0 when there is none at i
FindAllFrom(pat, s, i, e) ==
    IF e = 0 THEN FindAll(pat, s, i + 1)
    ELSE <<SubSeq(s, i, e - 1)>> \o FindAll(pat, s, e)

\* m.count('.')
CountDots(m) == Cardinality({k \in 1..Len(m) : m[k] = "."})

\* line 354
DepthOfDots(n) == IF n > 0 THEN n + 1 ELSE 1

MatchDepth(m) == DepthOfDots(CountDots(m))

Larger(a, b) == IF a > b THEN a ELSE b

\* lines 351-356
RECURSIVE MaxDepth(_, _)
MaxDepth(ms, acc) ==
    IF ms = <<>> THEN acc ELSE MaxDepth(Tail(ms), Larger(MatchDepth(Head(ms)), acc))

\* the default of the parameter max_chars, line 335
MaxChars == 1000

Smaller(a, b) == IF a < b THEN a ELSE b

\* lines 349-356 on text[:max_chars]
DetectIn(sample) ==
    MaxDepth(FindAll(1, sample, 1) \o FindAll(2, sample, 1)
               \o FindAll(3, sample, 1) \o FindAll(4, sample, 1), 1)

\* main.py 335-357
detect_min_level(text) == DetectIn(Slice(text, 0, Smaller(Len(text), MaxChars)))

NumDelimClose(s, i, d) == IF d > i /\ CharAt(s, d) \in Delims THEN d + 1 ELSE 0

\* \d+[delims]
NumDelimEnd(s, i) == NumDelimClose(s, i, RunEnd(s, i, Digits))

\* a | b of two alternatives tried in order at one position
OrElse(a, b) == IF a # 0 THEN a ELSE b

\* line 364, the group: \d+[delims] | [CnNums]+DUN | FWLP..FWRP | (..)
Level1GroupEnd(s, i) ==
    OrElse(NumDelimEnd(s, i),
           OrElse(CnTokenEnd(s, i),
                  OrElse(ParenTokenEnd(s, i, "FWLP", "FWRP"), ParenTokenEnd(s, i, "(", ")"))))

\* lines 366, 368, the group: \d+ (\.\d+){n} [delims]? with n = 1, 2
RECURSIVE DotNumsEnd(_, _, _)
DotNumsEnd(s, j, n) ==
    IF j = 0 \/ n = 0 THEN j
    ELSE IF CharAt(s, j) = "." /\ CharAt(s, j + 1) \in Digits
         THEN DotNumsEnd(s, RunEnd(s, j + 1, Digits), n - 1)
         ELSE 0

OptDelimAfter(s, e) == IF e = 0 THEN 0 ELSE OptDelimEnd(s, e)

DottedAfter(s, i, d, n) == OptDelimAfter(s, IF d > i THEN DotNumsEnd(s, d, n) ELSE 0)

DottedGroupEnd(s, i, n) == DottedAfter(s, i, RunEnd(s, i, Digits), n)

\* line 371: the joined raw strings r'\\d+' and r'\\.' make the regex
\* \\d+(\\.\\d+){level-1}[delims]? : a backslash, letters d, and per further
\* level a backslash, any character but a newline, a backslash, letters d.
RECURSIVE RawPartsEnd(_, _, _)
RawPartsEnd(s, j, n) ==
    IF j = 0 \/ n = 0 THEN j
    ELSE IF /\ CharAt(s, j) = "\\"
            /\ CharAt(s, j + 1) \notin {"\n", "EOT"}
            /\ CharAt(s, j + 2) = "\\"
            /\ CharAt(s, j + 3) = "d"
         THEN RawPartsEnd(s, RunEnd(s, j + 3, {"d"}), n - 1)
         ELSE 0

DeepGroupEnd(s, i, level) ==
    OptDelimAfter(s, IF CharAt(s, i) = "\\" /\ CharAt(s, i + 1) = "d"
                     THEN RawPartsEnd(s, RunEnd(s, i + 1, {"d"}), level - 1)
                     ELSE 0)

\* main.py 359-371: the group of build_level_regex(level) matched at i
build_level_regex(level, s, i) ==
    IF level = 1 THEN Level1GroupEnd(s, i)
    ELSE IF level = 2 THEN DottedGroupEnd(s, i, 1)
    ELSE IF level = 3 THEN DottedGroupEnd(s, i, 2)
    ELSE DeepGroupEnd(s, i, level)

\* (?:^|\n)(group) at position i: ^ is the start of the text (no re.MULTILINE)
LevelMatchEnd(level, s, i) ==
    OrElse(IF i = 1 THEN build_level_regex(level, s, 1) ELSE 0,
           IF CharAt(s, i) = "\n" THEN build_level_regex(level, s, i + 1) ELSE 0)

\* pattern.finditer(text): the matches' m.start() and m.end(), Python offsets
RECURSIVE FindIter(_, _, _), FindIterFrom(_, _, _, _)
FindIter(level, s, i) ==
    IF i > Len(s) THEN <<>> ELSE FindIterFrom(level, s, i, LevelMatchEnd(level, s, i))

\* e: where the match at i ends, 0 when there is none at i
FindIterFrom(level, s, i, e) ==
    IF e = 0 THEN FindIter(level, s, i + 1)
    ELSE <<[start |-> i - 1, end |-> e - 1]>> \o FindIter(level, s, e)

\* lines 381-384: one slice text[a:b] per match, up to the next match's start
MatchSlices(text, matches) ==
    [k \in 1..Len(matches) |->
        [a |-> matches[k].start,
         b |-> IF k + 1 <= Len(matches) THEN matches[k + 1].start ELSE Len(text)]]

\* lines 379-389: the slices the paragraphs are stripped from, one per match
\* and one for the text after the last match's end
SlicesOf(text, matches) ==
    IF Len(matches) = 0 THEN <<[a |-> 0, b |-> Len(text)]>>
    ELSE IF matches[Len(matches)].end < Len(text)
         THEN Append(MatchSlices(text, matches),
                     [a |-> matches[Len(matches)].end, b |-> Len(text)])
         ELSE MatchSlices(text, matches)

SplitSlices(text) == SlicesOf(text, FindIter(detect_min_level(text), text, 1))

\* the slices whose stripped text is not empty: the spans of the paragraphs
ParagraphSpans(text) ==
    SelectSeq(SplitSlices(text), LAMBDA sl : Strip(Slice(text, sl.a, sl.b)) # <<>>)

\* p.strip() at lines 382, 384, 387, 389
StrippedSlices(text, spans) ==
    [k \in 1..Len(spans) |-> Strip(Slice(text, spans[k].a, spans[k].b))]

\* main.py 373-390
split_by_detected_level(text) == StrippedSlices(text, ParagraphSpans(text))

---------------------------------------------------------------------------
(* The stages of one paragraph, main.py 68-96, 98-218, 256-333, 401-476.   *)
(* A stage takes the value call_deepseek_api returned: None, or the        *)
(* stripped content as a str.                                              *)

L1Key == <<"L1">>
L2Key == <<"L2">>
Unclassified == <<"U">>
EmptyStr == PStr(<<>>)
EmptyDict == PDict(<<>>, <<>>)
EmptyList == PList(<<>>)

\* call_deepseek_api, lines 51-66: a failure of the transport gives None, a
\* reply gives content.strip()
call_deepseek_api(reply) == IF reply.t = "none" THEN PNone ELSE PStr(Strip(reply.s))

\* what iterating a list or a dict yields (for x in v)
IterItems(v) ==
    IF v.t = "dict" THEN [k \in 1..Len(v.keys) |-> PStr(v.keys[k])] ELSE v.items

\* lines 247-254 for a fragment: json.loads raised, the handler writes the file
FragmentFails(frag) == ~frag.none /\ json_loads(frag.str).raised

\* robust_json_loads writes json_parse_error.txt when json.loads raised
WritesParseError(json_str) == FragmentFails(extract_first_json(json_str))

\* line 333 as it would be with the call of line 332 in a try that returns []
TripletsOrEmptyGuarded(triplets) ==
    Returned(IF ~triplets.raised /\ Truthy(triplets.val) THEN triplets.val ELSE EmptyList)

\* line 333
TripletsOrEmpty(triplets) ==
    IF triplets.raised THEN Raised
    ELSE Returned(IF Truthy(triplets.val) THEN triplets.val ELSE EmptyList)

\* lines 329-333
recognize_scenarios_and_build_relations(response_content) ==
    IF ~Truthy(response_content) THEN Returned(EmptyList)
    ELSE TripletsOrEmpty(robust_json_loads(response_content.s))

\* lines 403-407
SceneTagsOf(scene_triplets) ==
    IF scene_triplets.raised THEN Raised
    ELSE Returned(PList(SelectSeq(IterItems(scene_triplets.val),
                                  LAMBDA t : t.t = "list" /\ Len(t.items) >= 2)))

\* lines 401-407; the result is the list scene_tags
get_scene_tags(response_content) ==
    SceneTagsOf(recognize_scenarios_and_build_relations(response_content))

\* lines 89-91: json.loads of the fragment, when there is one
ItemsLoaded(json_str) == IF json_str.none THEN Raised ELSE json_loads(json_str.str)

\* line 93 as it would be without the two calls of strip: the strings as the
\* oracle wrote them
ItemSetUnstripped(items) ==
    IF ~items.raised /\ items.val.t = "list"
    THEN {items.val.items[k].s :
            k \in {n \in 1..Len(items.val.items) : items.val.items[n].t = "str"}}
    ELSE {}

\* lines 91-96: the set the comprehension of line 93 builds
ItemSet(items) ==
    IF ~items.raised /\ items.val.t = "list"
    THEN {Strip(items.val.items[k].s) :
            k \in {n \in 1..Len(items.val.items) :
                     /\ items.val.items[n].t = "str"
                     /\ Strip(items.val.items[n].s) # <<>>}}
    ELSE {}

\* lines 85-96 and 409-411: the set of line 93 (the list made of it has no
\* fixed order)
extract_personal_data(response_content) ==
    ItemSet(IF Truthy(response_content)
            THEN ItemsLoaded(extract_first_json(response_content.s))
            ELSE Raised)

\* the lists a set can become
Orderings(S) == {q \in [1..Cardinality(S) -> S] : \A x \in S : \E k \in DOMAIN q : q[k] = x}

\* lines 207-208
ClassifiedLoaded(json_str) ==
    IF json_str.none THEN Returned(EmptyDict) ELSE robust_json_loads(json_str.str)

\* lines 209-218
ClassifiedOf(classified_data) ==
    IF classified_data.raised THEN Raised
    ELSE IF classified_data.val.t = "dict" THEN classified_data
    ELSE Returned(EmptyDict)

\* lines 203-218, for non-empty data_items
classify_data_items(response_content) ==
    ClassifiedOf(IF Truthy(response_content)
                 THEN ClassifiedLoaded(extract_first_json(response_content.s))
                 ELSE Returned(EmptyDict))

\* line 418 as it would be without the test of the keys
CompleteWithoutKeys(response, ents) == Truthy(response) /\ response.t = "dict"

\* line 418
Complete(response, ents) ==
    /\ Truthy(response)
    /\ response.t = "dict"
    /\ \A k \in 1..Len(ents) : HasKey(response, ents[k])

\* line 421
Fallback(ents) ==
    PDict(ents, [k \in 1..Len(ents) |->
                   PDict(<<L1Key, L2Key>>, <<PStr(Unclassified), PStr(Unclassified)>>)])

\* classified.get(ent, {})
CategoryOf(cls, ent) == DictGet(cls, ent, EmptyDict)

\* lines 425-429
EntityEntry(ent, cat) ==
    [item |-> PStr(ent),
     level1 |-> DictGet(cat, L1Key, EmptyStr),
     level2 |-> DictGet(cat, L2Key, EmptyStr)]

\* lines 423-430: classified.get(ent, {}).get(key, "") raises on a value
\* that is no dict
build_entity_list(ents, cls) ==
    IF \E k \in 1..Len(ents) : CategoryOf(cls, ents[k]).t # "dict"
    THEN [raised |-> TRUE, val |-> <<>>]
    ELSE [raised |-> FALSE,
          val |-> [k \in 1..Len(ents) |-> EntityEntry(ents[k], CategoryOf(cls, ents[k]))]]

\* line 471
ActionsLoaded(json_str) ==
    IF json_str.none THEN Returned(EmptyList) ELSE robust_json_loads(json_str.str)

\* lines 471-475
ActionsOf(loaded) == IF loaded.raised THEN EmptyList ELSE loaded.val

\* lines 467-476, for non-empty scene_tags and entities
analyze_actions(response) ==
    ActionsOf(IF Truthy(response)
              THEN ActionsLoaded(extract_first_json(response.s))
              ELSE Returned(EmptyList))

\* lines 535-539
RelationsOf(rels) ==
    [k \in 1..Len(rels) |->
       [scene |-> SubSeq(rels[k].items, 1, 3),
        relation |-> rels[k].items[4],
        item |-> rels[k].items[5]]]

\* lines 532-539
Relations(raw) ==
    RelationsOf(SelectSeq(IterItems(raw), LAMBDA rel : rel.t = "list" /\ Len(rel.items) >= 5))

---------------------------------------------------------------------------
(* flatten_results, main.py 478-496 *)

\* line 484 as it would be without the default of next: StopIteration
EntityCatNoDefault(ents, entity) ==
    [raised |-> \A k \in 1..Len(ents) : ents[k].item # entity,
     cat |-> IF \E k \in 1..Len(ents) : ents[k].item = entity
             THEN ents[CHOOSE k \in 1..Len(ents) : ents[k].item = entity]
             ELSE [item |-> PNone, level1 |-> EmptyStr, level2 |-> EmptyStr]]

\* line 484: next((e for e in entities if e[item] == entity), {})
EntityCat(ents, entity) ==
    IF \E k \in 1..Len(ents) : ents[k].item = entity
    THEN [raised |-> FALSE,
          cat |-> ents[CHOOSE k \in 1..Len(ents) :
                         /\ ents[k].item = entity
                         /\ \A m \in 1..(k - 1) : ents[m].item # entity]]
    ELSE [raised |-> FALSE, cat |-> [item |-> PNone, level1 |-> EmptyStr, level2 |-> EmptyStr]]

\* lines 485-495
FlatRecordOf(policy_name, para_info, rel, entity_cat) ==
    [policy |-> policy_name,
     no |-> para_info.no,
     item |-> rel.item,
     level1 |-> entity_cat.level1,
     level2 |-> entity_cat.level2,
     scene1 |-> IF Len(rel.scene) > 0 THEN rel.scene[1] ELSE EmptyStr,
     scene2 |-> IF Len(rel.scene) > 1 THEN rel.scene[2] ELSE EmptyStr,
     scene3 |-> IF Len(rel.scene) > 2 THEN rel.scene[3] ELSE EmptyStr,
     action |-> rel.relation]

\* lines 482-495
FlatRecord(policy_name, para_info, rel) ==
    FlatRecordOf(policy_name, para_info, rel, EntityCat(para_info.entities, rel.item).cat)

\* lines 481-495 as they would be with flat.insert(0, ...) for flat.append:
\* the records come out last first
RECURSIVE FlatOfParagraphsPrepended(_, _)
FlatOfParagraphsPrepended(policy_name, content) ==
    IF content = <<>> THEN <<>>
    ELSE FlatOfParagraphsPrepended(policy_name, Tail(content))
         \o [k \in 1..Len(Head(content).relations) |->
               FlatRecord(policy_name, Head(content),
                          Head(content).relations[Len(Head(content).relations) + 1 - k])]

RECURSIVE FlatOfParagraphs(_, _)
FlatOfParagraphs(policy_name, content) ==
    IF content = <<>> THEN <<>>
    ELSE [k \in 1..Len(Head(content).relations) |->
            FlatRecord(policy_name, Head(content), Head(content).relations[k])]
         \o FlatOfParagraphs(policy_name, Tail(content))

\* raised: the lookup of line 484 raised for some triple
flatten_results(policy_name, content) ==
    [raised |-> \E p \in 1..Len(content) : \E k \in 1..Len(content[p].relations) :
                   EntityCat(content[p].entities, content[p].relations[k].item).raised,
     flat |-> FlatOfParagraphs(policy_name, content)]

---------------------------------------------------------------------------
(* The state of a part of the program that a specification leaves out *)

IdleJson ==
    /\ jpc = "idle"
    /\ jbody = <<>>
    /\ jtext = <<>>
    /\ jres = NoJson
    /\ jloaded = Raised

IdleSplit ==
    /\ spc = "idle"
    /\ doc = <<>>
    /\ min_level = 0
    /\ sparas = <<>>

IdlePipe ==
    /\ rows = <<>>
    /\ oracle = [scene |-> {}, entity |-> {}, classify |-> {}, action |-> {}]
    /\ pc = "idle"
    /\ row = 0
    /\ paragraphs = <<>>
    /\ idx = 0
    /\ calls = <<>>
    /\ scene_tags = EmptyList
    /\ entities = <<>>
    /\ attempts = <<>>
    /\ classified = EmptyDict
    /\ entity_list = <<>>
    /\ relations_raw = EmptyList
    /\ processed_content = <<>>
    /\ results = <<>>
    /\ final_results = <<>>
    /\ failed = {}
    /\ files = {}

---------------------------------------------------------------------------
(* SpecSplit: detect_min_level and split_by_detected_level on one document *)

MaxDocLen == 6

DocChars == {"1", ".", "\n", "a", "DUN"}

\* the two-section example: "1. a\nb\n2. c\nd"; Chinese and parenthesised
\* markers; a deep numbering
ExampleDoc == <<"1", ".", " ", "a", "\n", "b", "\n", "2", ".", " ", "c", "\n", "d">>
SampleDocs ==
    { ExampleDoc,
      <<"CN1", "DUN", "a", "\n", "CN2", "DUN", "b">>,
      <<"(", "1", ")", "a", "\n", "FWLP", "CN2", "FWRP", "b">>,
      <<"a", "\n", "1", ".", "1", " ", "b", "\n", "1", ".", "2", "FWDOT", "c">>,
      <<"1", ".", "1", ".", "1", " ", "a", "\n", "1", ".", "1", ".", "2", " ", "b">>,
      <<"1", ".", "1", ".", "1", ".", "1", "a", "\n", "\\", "d", "\\", ".", "\\", "d",
        "\\", ".", "\\", "d", "\\", ".", "\\", "d", "a">> }

Docs == SeqsUpTo(DocChars, MaxDocLen) \cup SampleDocs

InitSplit ==
    /\ spc = "doc"
    /\ doc \in Docs
    /\ min_level = 0
    /\ sparas = <<>>
    /\ IdleJson
    /\ IdlePipe

DetectMinLevel ==
    /\ spc = "doc"
    /\ min_level' = detect_min_level(doc)
    /\ spc' = "detected"
    /\ UNCHANGED <<doc, sparas>>
    /\ UNCHANGED <<jsonVars, pipeVars>>

SplitByDetectedLevel ==
    /\ spc = "detected"
    /\ sparas' = split_by_detected_level(doc)
    /\ spc' = "split"
    /\ UNCHANGED <<doc, min_level>>
    /\ UNCHANGED <<jsonVars, pipeVars>>

NextSplit == DetectMinLevel \/ SplitByDetectedLevel

SpecSplit == InitSplit /\ [][NextSplit]_vars

---------------------------------------------------------------------------
(* The replies of the oracle: texts, written as the JSON text of a value   *)
(* (json.dumps without spaces), damaged or wrapped where said.             *)

RECURSIVE Dumps(_), DumpsItems(_), DumpsMembers(_, _)
Dumps(v) ==
    CASE v.t = "str"  -> <<"\"">> \o v.s \o <<"\"">>
      [] v.t = "num"  -> v.s
      [] v.t = "list" -> <<"[">> \o DumpsItems(v.items) \o <<"]">>
      [] OTHER        -> <<"{">> \o DumpsMembers(v.keys, v.items) \o <<"}">>
DumpsItems(xs) ==
    IF xs = <<>> THEN <<>>
    ELSE Dumps(Head(xs)) \o (IF Len(xs) > 1 THEN <<",">> ELSE <<>>) \o DumpsItems(Tail(xs))
DumpsMembers(ks, xs) ==
    IF ks = <<>> THEN <<>>
    ELSE <<"\"">> \o Head(ks) \o <<"\"", ":">> \o Dumps(Head(xs))
         \o (IF Len(ks) > 1 THEN <<",">> ELSE <<>>) \o DumpsMembers(Tail(ks), Tail(xs))

\* the text with its first comma replaced by a space: it no longer parses
DropComma(t) == [k \in 1..Len(t) |-> IF k = Find(t, ",") THEN " " ELSE t[k]]
\* the text without its last character: its structure is never closed
Unclosed(t) == SubSeq(t, 1, Len(t) - 1)
\* the text in a fenced block, with a comment after it
Fenced(t) ==
    <<"BT", "BT", "BT", "j", "s", "o", "n", "\n">> \o t
        \o <<"\n", "BT", "BT", "BT", " ", "o", "k">>
Sorry == <<"s", "o", "r", "r", "y">>

Word(c) == PStr(<<c>>)
Words(cs) == PList([k \in 1..Len(cs) |-> Word(cs[k])])
Cat(p, q) == PDict(<<L1Key, L2Key>>, <<Word(p), Word(q)>>)

RichScene ==
    { PNone,
      PStr(Sorry),
      PStr(Dumps(PList(<<Words(<<"A", "B", "C">>), Words(<<"A", "B">>), Words(<<"A">>),
                         Word("A")>>))),
      PStr(Dumps(PList(<<Words(<<"A", "B", "C", "D">>)>>))),
      PStr(DropComma(Dumps(PList(<<Words(<<"A", "B">>)>>)))),
      PStr(Dumps(PDict(<< <<"A">> >>, <<Words(<<"B", "C">>)>>))),
      PStr(Dumps(EmptyList)) }

RichEntity ==
    { PNone,
      PStr(Fenced(Dumps(Words(<<"a", "b">>)))),
      PStr(Dumps(PList(<<PStr(<<" ", "a">>), Word("a"), EmptyStr, PNum(<<"1">>),
                         Words(<<"b">>)>>))),
      PStr(Dumps(PDict(<< <<"a">> >>, <<PNum(<<"1">>)>>))),
      PStr(DropComma(Dumps(Words(<<"a", "b">>)))),
      PStr(Unclosed(Dumps(Words(<<"a">>)))) }

RichClassify ==
    { PNone,
      PStr(Sorry),
      PStr(Dumps(PDict(<< <<"a">>, <<"b">> >>, <<Cat("P", "Q"), Cat("R", "S")>>))),
      PStr(Dumps(PDict(<< <<"a">> >>, <<Cat("P", "Q")>>))),
      PStr(Dumps(PDict(<< <<"a">>, <<"b">>, <<"c">> >>,
                       <<Cat("P", "Q"), Cat("R", "S"), Cat("R", "S")>>))),
      PStr(Dumps(PDict(<< <<"a">>, <<"b">> >>, <<Word("P"), Word("Q")>>))),
      PStr(Dumps(PDict(<< <<"a">>, <<"b">> >>,
                       <<EmptyDict, PDict(<<L1Key>>, <<EmptyStr>>)>>))),
      PStr(DropComma(Dumps(PDict(<< <<"a">> >>, <<Cat("P", "Q")>>)))),
      PStr(Dumps(PList(<<PNum(<<"1">>)>>))) }

RichAction ==
    { PNone,
      PStr(Sorry),
      PStr(Dumps(PList(<<Words(<<"A", "B", "C", "X", "a">>),
                         PList(<<Word("A"), Word("B"), EmptyStr, Word("Y"), Word("b")>>)>>))),
      PStr(Dumps(PList(<<Words(<<"A", "B", "C", "X", "z">>)>>))),
      PStr(Dumps(PList(<<Words(<<"Z", "B", "C", "X", "a">>), Words(<<"A", "B">>),
                         Word("x")>>))),
      PStr(Dumps(PDict(<< <<"a">> >>, <<Word("X")>>))),
      PStr(DropComma(Dumps(PList(<<Words(<<"A", "B", "C", "X", "a">>)>>)))) }

RichOracle ==
    [scene |-> RichScene, entity |-> RichEntity, classify |-> RichClassify,
     action |-> RichAction]

SmallScene ==
    { PStr(Sorry),
      PStr(Dumps(PList(<<Words(<<"A", "B", "C">>)>>))) }

SmallEntity ==
    { PStr(Dumps(Words(<<"a">>))) }

SmallClassify ==
    { PNone,
      PStr(DropComma(Dumps(PDict(<< <<"a">> >>, <<Cat("P", "Q")>>)))) }

SmallAction ==
    { PStr(Dumps(PList(<<Words(<<"A", "B", "C", "X", "a">>)>>))) }

SmallOracle ==
    [scene |-> SmallScene, entity |-> SmallEntity, classify |-> SmallClassify,
     action |-> SmallAction]

---------------------------------------------------------------------------
(* The input table: one cell per row *)

MaxRows == 2

\* a cell that is no str; a blank text; a text without markers (one
\* paragraph); a text with two markers
Cells ==
    { PNum(<<"0">>),
      PStr(<<" ", "\n">>),
      PStr(<<"a", "b">>),
      PStr(<<"1", "DUN", "a", "\n", "2", "DUN">>) }

\* every table of up to MaxRows rows is run against the small oracle, the
\* table of one one-paragraph text against the rich one
Inputs ==
    {[rows |-> r, oracle |-> SmallOracle] : r \in SeqsUpTo(Cells, MaxRows)}
      \cup {[rows |-> <<PStr(<<"a", "b">>)>>, oracle |-> RichOracle]}

Init ==
    /\ \E inp \in Inputs : rows = inp.rows /\ oracle = inp.oracle
    /\ pc = "row"
    /\ row = 1
    /\ paragraphs = <<>>
    /\ idx = 0
    /\ calls = <<>>
    /\ scene_tags = EmptyList
    /\ entities = <<>>
    /\ attempts = <<>>
    /\ classified = EmptyDict
    /\ entity_list = <<>>
    /\ relations_raw = EmptyList
    /\ processed_content = <<>>
    /\ results = <<>>
    /\ final_results = <<>>
    /\ failed = {}
    /\ files = {}
    /\ IdleJson
    /\ IdleSplit

---------------------------------------------------------------------------
(* Spec: process_policies, main.py 515-555, one step per stage of a        *)
(* paragraph; every call of the oracle is a step of its own.  calls lists  *)
(* the paragraph's calls of the oracle that returned to the stage without  *)
(* an exception, with the reply each got; failed lists the paragraphs      *)
(* whose exception line 547 caught, with the stage that raised.            *)

\* the locals of a paragraph before its first stage
FreshParagraph ==
    /\ calls' = <<>>
    /\ scene_tags' = EmptyList
    /\ entities' = <<>>
    /\ attempts' = <<>>
    /\ classified' = EmptyDict
    /\ entity_list' = <<>>
    /\ relations_raw' = EmptyList

\* the for statement of line 524 moves on
NextParagraph ==
    /\ FreshParagraph
    /\ IF idx < Len(paragraphs)
       THEN idx' = idx + 1 /\ pc' = "scenes"
       ELSE idx' = idx /\ pc' = "endrow"

\* lines 547-548 as they would be with the try around the loop of line 524:
\* the exception ends the document's paragraphs
ParagraphFailedEndsRow(stage, reply) ==
    /\ failed' = failed \cup {[row |-> row, no |-> idx, stage |-> stage, reply |-> reply]}
    /\ processed_content' = processed_content
    /\ FreshParagraph
    /\ idx' = idx
    /\ pc' = "endrow"

\* lines 547-548: the paragraph's exception is caught and printed
ParagraphFailed(stage, reply) ==
    /\ failed' = failed \cup {[row |-> row, no |-> idx, stage |-> stage, reply |-> reply]}
    /\ processed_content' = processed_content
    /\ NextParagraph

Call(stage, reply) == [stage |-> stage, reply |-> reply]

\* line 519
IsPolicyText(cell) == cell.t = "str" /\ Strip(cell.s) # <<>>

\* lines 517-520: a row without a text is passed over
SkipRow ==
    /\ UNCHANGED <<jsonVars, splitVars>>
    /\ pc = "row"
    /\ row <= Len(rows)
    /\ ~IsPolicyText(rows[row])
    /\ row' = row + 1
    /\ UNCHANGED <<inputVars, pc, paragraphs, idx, calls, paraVars, processed_content,
                   results, final_results, failed, files>>

\* lines 517-524
StartRow ==
    /\ UNCHANGED <<jsonVars, splitVars>>
    /\ pc = "row"
    /\ row <= Len(rows)
    /\ IsPolicyText(rows[row])
    /\ paragraphs' = split_by_detected_level(rows[row].s)
    /\ processed_content' = <<>>
    /\ idx' = 1
    /\ pc' = IF paragraphs' = <<>> THEN "endrow" ELSE "scenes"
    /\ UNCHANGED <<inputVars, row, calls, paraVars, results, final_results, failed, files>>

\* the file robust_json_loads leaves when it is given json_str and raises
ParseErrorFile(json_str) ==
    IF WritesParseError(json_str) THEN {"json_parse_error.txt"} ELSE {}

\* line 526
GetSceneTags ==
    /\ UNCHANGED <<jsonVars, splitVars>>
    /\ pc = "scenes"
    /\ \E reply \in oracle.scene :
       \E response \in {call_deepseek_api(reply)} :
       \E tags \in {get_scene_tags(response)} :
         /\ files' = files \cup (IF Truthy(response) THEN ParseErrorFile(response.s) ELSE {})
         /\ IF tags.raised
            THEN ParagraphFailed("scene", reply)
            ELSE /\ scene_tags' = tags.val
                 /\ calls' = Append(calls, Call("scene", reply))
                 /\ pc' = "entities"
                 /\ UNCHANGED <<idx, entities, attempts, classified, entity_list,
                                relations_raw, processed_content, failed>>
    /\ UNCHANGED <<inputVars, row, paragraphs, results, final_results>>

\* line 527
ExtractEntities ==
    /\ UNCHANGED <<jsonVars, splitVars>>
    /\ pc = "entities"
    /\ \E reply \in oracle.entity :
         /\ \E ents \in Orderings(extract_personal_data(call_deepseek_api(reply))) :
              entities' = ents
         /\ calls' = Append(calls, Call("entity", reply))
    /\ pc' = "classify"
    /\ UNCHANGED <<inputVars, row, paragraphs, idx, scene_tags, attempts, classified,
                   entity_list, relations_raw, processed_content, results, final_results,
                   failed, files>>

\* lines 414-415: nothing to classify, the oracle is not called
ClassifyNothing ==
    /\ UNCHANGED <<jsonVars, splitVars>>
    /\ pc = "classify"
    /\ entities = <<>>
    /\ classified' = EmptyDict
    /\ pc' = "build"
    /\ UNCHANGED <<inputVars, row, paragraphs, idx, calls, scene_tags, entities, attempts,
                   entity_list, relations_raw, processed_content, results, final_results,
                   failed, files>>

\* the number of passes of the loop of line 416
MaxAttempts == 2

\* lines 212-217: the files classify_data_items leaves when it raises
ClassifyErrorFiles(content) ==
    {"model_output_error.txt"} \cup ParseErrorFile(extract_first_json(content.s).str)

\* lines 416-421: one pass of the loop, and the fallback after the last
ClassifyAttempt ==
    /\ UNCHANGED <<jsonVars, splitVars>>
    /\ pc = "classify"
    /\ entities # <<>>
    /\ Len(attempts) < MaxAttempts
    /\ \E reply \in oracle.classify :
       \E content \in {call_deepseek_api(reply)} :
       \E response \in {classify_data_items(content)} :
         IF response.raised
         THEN /\ files' = files \cup ClassifyErrorFiles(content)
              /\ ParagraphFailed("classify", reply)
         ELSE /\ calls' = Append(calls, Call("classify", reply))
              /\ attempts' = Append(attempts, response.val)
              /\ IF Complete(response.val, entities)
                 THEN classified' = response.val /\ pc' = "build"
                 ELSE IF Len(attempts) + 1 < MaxAttempts
                 THEN classified' = classified /\ pc' = "classify"
                 ELSE classified' = Fallback(entities) /\ pc' = "build"
              /\ UNCHANGED <<idx, scene_tags, entities, entity_list, relations_raw,
                             processed_content, failed, files>>
    /\ UNCHANGED <<inputVars, row, paragraphs, results, final_results>>

\* line 529
BuildEntityList ==
    /\ UNCHANGED <<jsonVars, splitVars>>
    /\ pc = "build"
    /\ \E built \in {build_entity_list(entities, classified)} :
         IF built.raised
         THEN ParagraphFailed("build", PNone)
         ELSE /\ entity_list' = built.val
              /\ pc' = "actions"
              /\ UNCHANGED <<idx, calls, scene_tags, entities, attempts, classified,
                             relations_raw, processed_content, failed>>
    /\ UNCHANGED <<inputVars, row, paragraphs, results, final_results, files>>

\* lines 448-476 as they would be without the test of line 448: the oracle
\* is asked although there is nothing to relate
AnalyzeWithoutShortCut ==
    /\ UNCHANGED <<jsonVars, splitVars>>
    /\ pc = "actions"
    /\ (~Truthy(scene_tags) \/ entities = <<>>)
    /\ \E reply \in oracle.action :
       \E response \in {call_deepseek_api(reply)} :
         /\ relations_raw' = analyze_actions(response)
         /\ calls' = Append(calls, Call("action", reply))
    /\ pc' = "record"
    /\ UNCHANGED <<inputVars, row, paragraphs, idx, scene_tags, entities, attempts,
                   classified, entity_list, processed_content, results, final_results,
                   failed, files>>

\* lines 448-449: nothing to relate, the oracle is not called
AnalyzeNothing ==
    /\ UNCHANGED <<jsonVars, splitVars>>
    /\ pc = "actions"
    /\ (~Truthy(scene_tags) \/ entities = <<>>)
    /\ relations_raw' = EmptyList
    /\ pc' = "record"
    /\ UNCHANGED <<inputVars, row, paragraphs, idx, calls, scene_tags, entities, attempts,
                   classified, entity_list, processed_content, results, final_results,
                   failed, files>>

\* lines 471-472: the file the call of robust_json_loads leaves
ActionErrorFiles(json_str) == IF json_str.none THEN {} ELSE ParseErrorFile(json_str.str)

\* lines 450-476
AnalyzeActions ==
    /\ UNCHANGED <<jsonVars, splitVars>>
    /\ pc = "actions"
    /\ Truthy(scene_tags) /\ entities # <<>>
    /\ \E reply \in oracle.action :
       \E response \in {call_deepseek_api(reply)} :
         /\ relations_raw' = analyze_actions(response)
         /\ files' = files \cup (IF Truthy(response)
                                 THEN ActionErrorFiles(extract_first_json(response.s))
                                 ELSE {})
         /\ calls' = Append(calls, Call("action", reply))
    /\ pc' = "record"
    /\ UNCHANGED <<inputVars, row, paragraphs, idx, scene_tags, entities, attempts,
                   classified, entity_list, processed_content, results, final_results,
                   failed>>

\* lines 532-546 as they would be with the record assembled before line 530:
\* the paragraph is recorded without its actions being resolved
RecordBeforeActions ==
    /\ UNCHANGED <<jsonVars, splitVars>>
    /\ pc \in {"actions", "record"}
    /\ processed_content' = Append(processed_content,
           [para |-> paragraphs[idx],
            no |-> idx,
            scene_tags |-> scene_tags,
            entities |-> entity_list,
            relations |-> Relations(relations_raw)])
    /\ NextParagraph
    /\ UNCHANGED <<inputVars, row, paragraphs, results, final_results, failed, files>>

\* lines 532-546
Record ==
    /\ UNCHANGED <<jsonVars, splitVars>>
    /\ pc = "record"
    /\ processed_content' = Append(processed_content,
           [para |-> paragraphs[idx],
            no |-> idx,
            scene_tags |-> scene_tags,
            entities |-> entity_list,
            relations |-> Relations(relations_raw)])
    /\ NextParagraph
    /\ UNCHANGED <<inputVars, row, paragraphs, results, final_results, failed, files>>

\* lines 549-553; the policy's name is its row number (line 521, no name
\* column).  An exception of flatten_results is caught nowhere.
EndRow ==
    /\ UNCHANGED <<jsonVars, splitVars>>
    /\ pc = "endrow"
    /\ \E flat \in {flatten_results(row, processed_content)} :
         IF flat.raised
         THEN /\ pc' = "crashed"
              /\ UNCHANGED <<results, final_results, row>>
         ELSE /\ results' = Append(results, [policy |-> row, content |-> processed_content])
              /\ final_results' = final_results \o flat.flat
              /\ row' = row + 1
              /\ pc' = "row"
    /\ UNCHANGED <<inputVars, paragraphs, idx, calls, paraVars, processed_content, failed, files>>

\* lines 554-555
SaveResults ==
    /\ UNCHANGED <<jsonVars, splitVars>>
    /\ pc = "row"
    /\ row > Len(rows)
    /\ files' = files \cup {"processed_results.json", "final_structured_results.json"}
    /\ pc' = "done"
    /\ UNCHANGED <<inputVars, row, paragraphs, idx, calls, paraVars, processed_content,
                   results, final_results, failed>>

Next ==
    \/ SkipRow
    \/ StartRow
    \/ GetSceneTags
    \/ ExtractEntities
    \/ ClassifyNothing
    \/ ClassifyAttempt
    \/ BuildEntityList
    \/ AnalyzeNothing
    \/ AnalyzeActions
    \/ Record
    \/ EndRow
    \/ SaveResults

Spec == Init /\ [][Next]_vars

---------------------------------------------------------------------------
(* SpecJson: extract_first_json and robust_json_loads on one text *)

MaxBodyLen == 5

BodyChars == {"[", "]", "{", "}", "\""}
Bodies == SeqsUpTo(BodyChars, MaxBodyLen)

\* nothing; prose; a fence with and without the language tag; prose and a fence
Leads ==
    { <<>>,
      <<"a", " ">>,
      <<"BT", "BT", "BT", "j", "s", "o", "n", "\n">>,
      <<" ", "BT", "BT", "BT", "J", "S", "O", "N">>,
      <<"BT", "BT", "BT", "\n">>,
      <<"a", "\n", "BT", "BT", "BT", "j", "s", "o", "n", "\n">> }
Trails ==
    { <<>>,
      <<" ", "a">>,
      <<"\n", "BT", "BT", "BT">>,
      <<"\n", "BT", "BT", "BT", " ", "a", "]">> }

InitJson ==
    /\ jpc = "text"
    /\ jbody \in Bodies
    /\ \E lead \in Leads, trail \in Trails : jtext = lead \o jbody \o trail
    /\ jres = NoJson
    /\ jloaded = Raised
    /\ IdleSplit
    /\ IdlePipe

ExtractFirstJson ==
    /\ jpc = "text"
    /\ jres' = extract_first_json(jtext)
    /\ jpc' = "extracted"
    /\ UNCHANGED <<jbody, jtext, jloaded>>
    /\ UNCHANGED <<splitVars, pipeVars>>

\* the call robust_json_loads(json_str) of lines 208 and 471, made when
\* extract_first_json returned a fragment
RobustJsonLoads ==
    /\ jpc = "extracted"
    /\ ~jres.none
    /\ jloaded' = robust_json_loads(jres.str)
    /\ jpc' = "loaded"
    /\ UNCHANGED <<jbody, jtext, jres>>
    /\ UNCHANGED <<splitVars, pipeVars>>

NextJson == ExtractFirstJson \/ RobustJsonLoads

SpecJson == InitJson /\ [][NextJson]_vars

---------------------------------------------------------------------------
(* Properties of classify_entities, under Spec *)

\* classify_entities has just returned the mapping classified for the
\* non-empty list entities
Classified == pc = "build" /\ entities # <<>>

\* C1: for every non-empty list of items and whatever the oracle replied on
\* either attempt, the keys of the mapping classify_entities returns are
\* exactly the items: none is missing and no other key is present.
C1_KeysAreExactlyTheItems ==
    Classified => Range(classified.keys) = Range(entities)

\* classify_entities returned after a reply that held the items and a key more
C1_ReturnedAfterExtraKey ==
    /\ Classified
    /\ \E k \in 1..Len(attempts) :
         /\ Range(entities) \subseteq Range(attempts[k].keys)
         /\ Range(attempts[k].keys) # Range(entities)

\* the replies the passes of the loop of line 416 got
ClassifyCalls == SelectSeq(calls, LAMBDA c : c.stage = "classify")

\* the reply was an object that holds some of the items, not all, and no
\* other key
PartialReply(reply, response, ents) ==
    /\ reply.t = "str"
    /\ response.t = "dict"
    /\ robust_json_loads(reply.s) = Returned(response)
    /\ Range(response.keys) \subseteq Range(ents)
    /\ Range(response.keys) # Range(ents)

EveryAttemptPartial ==
    /\ Classified
    /\ Len(attempts) = MaxAttempts
    /\ Len(ClassifyCalls) = MaxAttempts
    /\ \A k \in 1..MaxAttempts : PartialReply(ClassifyCalls[k].reply, attempts[k], entities)

\* the categories the replies gave for an item
GivenFor(ent) ==
    {DictGet(attempts[k], ent, PNone) : k \in {m \in 1..Len(attempts) : HasKey(attempts[m], ent)}}

SentinelPair == PDict(<<L1Key, L2Key>>, <<PStr(Unclassified), PStr(Unclassified)>>)

\* C2: when the reply of every attempt is a well-formed object that holds a
\* proper subset of the items, classify_entities maps each item a reply held
\* to the categories the oracle gave for it, and each item no reply held to
\* the sentinel pair.
C2_PartialRepliesKeepTheirCategories ==
    EveryAttemptPartial =>
        \A n \in 1..Len(entities) :
            IF GivenFor(entities[n]) # {}
            THEN DictGet(classified, entities[n], PNone) \in GivenFor(entities[n])
            ELSE DictGet(classified, entities[n], PNone) = SentinelPair

\* both replies held one of two items
C2_ReturnedAfterPartialReplies ==
    /\ EveryAttemptPartial
    /\ \E n \in 1..Len(entities) : GivenFor(entities[n]) # {}
    /\ \E n \in 1..Len(entities) : GivenFor(entities[n]) = {}

---------------------------------------------------------------------------
(* Properties of extract_first_json, under SpecJson *)

\* from position i, with depth structures open, some bracket closes the
\* outermost one; strings: the brackets inside a JSON string do not count
\* (quoted: position i is inside a string)
RECURSIVE ClosesFrom(_, _, _, _, _)
ClosesFrom(t, i, depth, strings, quoted) ==
    IF i > Len(t) THEN FALSE
    ELSE IF quoted THEN ClosesFrom(t, i + 1, depth, strings, t[i] # "\"")
    ELSE IF strings /\ t[i] = "\"" THEN ClosesFrom(t, i + 1, depth, strings, TRUE)
    ELSE IF t[i] \in {"{", "["} THEN ClosesFrom(t, i + 1, depth + 1, strings, FALSE)
    ELSE IF t[i] \in {"}", "]"}
         THEN depth <= 1 \/ ClosesFrom(t, i + 1, depth - 1, strings, FALSE)
    ELSE ClosesFrom(t, i + 1, depth, strings, FALSE)

\* a well-formed JSON object or array
WellFormedJson(body) ==
    /\ body # <<>>
    /\ body[1] \in {"{", "["}
    /\ ~json_loads(body).raised

\* the first structure the text opens is never closed, whether or not the
\* brackets inside strings are counted
NeverClosed(text) ==
    /\ FirstOpen(text) # 0
    /\ ~ClosesFrom(text, FirstOpen(text), 0, TRUE, FALSE)
    /\ ~ClosesFrom(text, FirstOpen(text), 0, FALSE, FALSE)

\* C3: for every well-formed JSON object or array J, strings that hold
\* brackets included, and every text around it (prose before, prose after, a
\* code fence) extract_first_json returns exactly J; for every text whose
\* first opened structure is never closed it returns nothing.
C3_RecoversExactlyTheEmbeddedJson ==
    jpc # "text" =>
        /\ WellFormedJson(jbody) => jres = SomeJson(jbody)
        /\ NeverClosed(jtext) => jres.none

\* extract_first_json was applied to a text around a well-formed array with
\* a bracket in a string
C3_AppliedToBracketInString ==
    /\ jpc = "extracted"
    /\ WellFormedJson(jbody)
    /\ \E k \in 2..Len(jbody) : jbody[k - 1] = "\"" /\ jbody[k] \in {"[", "]", "{", "}"}
    /\ jtext # jbody

---------------------------------------------------------------------------
(* Properties of split_by_detected_level, under SpecSplit *)

\* the paragraph p is the span D[a+1 .. a+Len(p)]
Occurs(D, p, a) ==
    /\ a + Len(p) <= Len(D)
    /\ \A k \in 1..Len(p) : D[a + k] = p[k]

\* the paragraphs are spans of D in the order given, each starting where the
\* one before has ended or later
RECURSIVE SpansInOrder(_, _, _)
SpansInOrder(D, ps, from) ==
    \/ ps = <<>>
    \/ \E a \in from..Len(D) :
         /\ Occurs(D, Head(ps), a)
         /\ SpansInOrder(D, Tail(ps), a + Len(Head(ps)))

\* C4: for every document the paragraphs split_by_detected_level returns are
\* spans of the document, in document order, no two of which overlap: no
\* character of the document is in two paragraphs.
C4_ParagraphsAreDisjointSpans ==
    spc = "split" => SpansInOrder(doc, sparas, 0)

\* a document was split in several paragraphs
C4_SplitInSeveral == spc = "split" /\ Len(sparas) >= 2

\* C5: for the document of two sections whose only markers are "1." and
\* "2." at the start of a line, detect_min_level gives depth 1 and
\* split_by_detected_level gives two paragraphs, each from its marker to
\* just before the next marker or the end of the document.
C5_ExampleSplitsInTwoSections ==
    (spc = "split" /\ doc = ExampleDoc) =>
        /\ min_level = 1
        /\ sparas = << <<"1", ".", " ", "a", "\n", "b">>, <<"2", ".", " ", "c", "\n", "d">> >>

\* the example document was split
C5_ExampleWasSplit == spc = "split" /\ doc = ExampleDoc

---------------------------------------------------------------------------
(* Properties of process_policies, under Spec *)

\* the paragraphs of a row that raised, and those a list of records holds
FailedNos(r) == {f.no : f \in {g \in failed : g.row = r}}
RecordedNos(content) == {content[k].no : k \in 1..Len(content)}

InParagraph == pc \in {"scenes", "entities", "classify", "build", "actions", "record"}

PolicyRows == {r \in 1..Len(rows) : IsPolicyText(rows[r])}

\* the guard of some action holds: the run has a next step
CanStep ==
    \/ pc = "row"
    \/ pc = "scenes" /\ oracle.scene # {}
    \/ pc = "entities" /\ oracle.entity # {}
    \/ pc = "classify" /\ entities = <<>>
    \/ pc = "classify" /\ Len(attempts) < MaxAttempts /\ oracle.classify # {}
    \/ pc = "build"
    \/ pc = "actions" /\ (~Truthy(scene_tags) \/ entities = <<>>)
    \/ pc = "actions" /\ oracle.action # {}
    \/ pc = "record"
    \/ pc = "endrow"

\* every paragraph the loop has passed is recorded or has raised, never
\* both; every row passed has its result; the run goes on until both files
\* are saved
C6_Kept ==
    /\ pc # "crashed"
    /\ InParagraph =>
         /\ RecordedNos(processed_content) = (1..(idx - 1)) \ FailedNos(row)
         /\ Len(results) = Cardinality({r \in PolicyRows : r < row})
    /\ pc = "endrow" =>
         RecordedNos(processed_content) = (1..Len(paragraphs)) \ FailedNos(row)
    /\ \A k \in 1..Len(results) :
         RecordedNos(results[k].content) =
            (1..Len(split_by_detected_level(rows[results[k].policy].s)))
               \ FailedNos(results[k].policy)
    /\ pc = "done" =>
         /\ {results[k].policy : k \in 1..Len(results)} = PolicyRows
         /\ {"processed_results.json", "final_structured_results.json"} \subseteq files
    /\ pc # "done" => CanStep

\* a step in which a paragraph raises leaves the records made so far as they
\* are and goes on with the next paragraph or the end of the row; no step
\* changes a record or a result made before
C6_Step ==
    /\ failed' # failed =>
         /\ processed_content' = processed_content
         /\ results' = results
         /\ final_results' = final_results
         /\ pc' = IF idx < Len(paragraphs) THEN "scenes" ELSE "endrow"
    /\ pc # "row" =>
         /\ Len(processed_content') >= Len(processed_content)
         /\ \A k \in 1..Len(processed_content) : processed_content'[k] = processed_content[k]
    /\ Len(results') >= Len(results)
    /\ \A k \in 1..Len(results) : results'[k] = results[k]

\* C6: when a stage of a paragraph raises, that paragraph alone is left out
\* of the document's records: every later paragraph of the document and every
\* later document is still run, the records of the paragraphs that succeeded
\* stay as they are, and the run reaches the step that saves both files.
C6_RaisingParagraphAloneIsOmitted == []C6_Kept /\ [][C6_Step]_vars

\* a run is saved in which the first paragraph of a document raised, a later
\* paragraph of it is recorded, and a later document has its result
C6_SavedAfterFailure ==
    /\ pc = "done"
    /\ \E k \in 1..Len(results) :
         /\ 1 \in FailedNos(results[k].policy)
         /\ RecordedNos(results[k].content) # {}
         /\ k < Len(results)

\* the reply is text in which no balanced JSON value is found
NoJsonIn(reply) ==
    /\ reply.t = "str"
    /\ Strip(reply.s) # <<>>
    /\ extract_first_json(reply.s).none

\* the reply is text whose recovered value fails json.loads
BadJsonIn(reply) == reply.t = "str" /\ FragmentFails(extract_first_json(reply.s))

Malformed(reply) == NoJsonIn(reply) \/ BadJsonIn(reply)

\* a stage that was given a malformed reply returned its default
DefaultAfterMalformed ==
    /\ \A k \in 1..Len(calls) :
         (calls[k].stage = "scene" /\ Malformed(calls[k].reply)) => scene_tags = EmptyList
    /\ \A k \in 1..Len(calls) :
         (calls[k].stage = "entity" /\ Malformed(calls[k].reply)) => entities = <<>>
    /\ \A k \in 1..Len(attempts) :
         Malformed(ClassifyCalls[k].reply) => attempts[k] = EmptyDict
    /\ \A k \in 1..Len(calls) :
         (calls[k].stage = "action" /\ pc = "record" /\ Malformed(calls[k].reply)) =>
             relations_raw = EmptyList

AbsentItem(para_info, rel) ==
    \A k \in 1..Len(para_info.entities) : para_info.entities[k].item # rel.item

RECURSIVE TotalRelations(_)
TotalRelations(rs) ==
    IF rs = <<>> THEN 0
    ELSE (IF Head(rs).content = <<>> THEN 0
          ELSE Len(Head(Head(rs).content).relations)
                 + TotalRelations(<<[policy |-> Head(rs).policy,
                                     content |-> Tail(Head(rs).content)]>>))
         + TotalRelations(Tail(rs))

\* the flat records made of a triple of a paragraph of a policy
FlatOf(policy, para_info, rel) ==
    {n \in 1..Len(final_results) :
        /\ final_results[n].policy = policy
        /\ final_results[n].no = para_info.no
        /\ final_results[n].item = rel.item
        /\ final_results[n].action = rel.relation
        /\ <<final_results[n].scene1, final_results[n].scene2, final_results[n].scene3>>
             = rel.scene}

\* C8: flatten_results never raises when a triple names a data item that is
\* absent from its paragraph's entity list; it still emits one flat record
\* for the triple, with both categories the empty string.
C8_AbsentItemGetsEmptyCategories ==
    /\ pc # "crashed"
    /\ Len(final_results) = TotalRelations(results)
    /\ \A r \in 1..Len(results) : \A p \in 1..Len(results[r].content) :
         \A k \in 1..Len(results[r].content[p].relations) :
            AbsentItem(results[r].content[p], results[r].content[p].relations[k]) =>
               /\ FlatOf(results[r].policy, results[r].content[p],
                         results[r].content[p].relations[k]) # {}
               /\ \A n \in FlatOf(results[r].policy, results[r].content[p],
                                  results[r].content[p].relations[k]) :
                     /\ final_results[n].level1 = EmptyStr
                     /\ final_results[n].level2 = EmptyStr

\* a result was flattened that holds a triple with an absent item, next to
\* entities that have categories
C8_FlattenedAbsentItem ==
    /\ pc = "done"
    /\ \E r \in 1..Len(results) : \E p \in 1..Len(results[r].content) :
         /\ \E k \in 1..Len(results[r].content[p].relations) :
              AbsentItem(results[r].content[p], results[r].content[p].relations[k])
         /\ \E k \in 1..Len(results[r].content[p].entities) :
              results[r].content[p].entities[k].level1 # EmptyStr

\* C9: after any run and for any output of the oracle, the data item of every
\* flat record is an entry of the entity list of the paragraph record it was
\* flattened from, and the flat record carries that entry's two categories.
C9_FlatItemIsAListedEntity ==
    \A r \in 1..Len(results) : \A p \in 1..Len(results[r].content) :
      \A n \in 1..Len(final_results) :
        (final_results[n].policy = results[r].policy
           /\ final_results[n].no = results[r].content[p].no) =>
            \E k \in 1..Len(results[r].content[p].entities) :
               /\ results[r].content[p].entities[k].item = final_results[n].item
               /\ results[r].content[p].entities[k].level1 = final_results[n].level1
               /\ results[r].content[p].entities[k].level2 = final_results[n].level2

\* flat records were made of a paragraph record
C9_FlattenedSome == pc = "done" /\ final_results # <<>>

\* C10: in every recorded paragraph record, for any output of the oracle,
\* the scenario of each triple of the relation list is an element of the
\* paragraph's list of scenario tags.
C10_TripleScenarioIsATag ==
    \A p \in 1..Len(processed_content) : \A k \in 1..Len(processed_content[p].relations) :
        \E t \in 1..Len(processed_content[p].scene_tags.items) :
            processed_content[p].scene_tags.items[t]
               = PList(processed_content[p].relations[k].scene)

\* a paragraph was recorded with triples and tags
C10_RecordedTriples ==
    \E p \in 1..Len(processed_content) :
        /\ processed_content[p].relations # <<>>
        /\ processed_content[p].scene_tags.items # <<>>

---------------------------------------------------------------------------
(* Properties of analyze_actions, under Spec *)

\* the calls of the oracle the current paragraph's stage made
CallsOf(stage) == {k \in 1..Len(calls) : calls[k].stage = stage}

\* analyze_actions has just returned relations_raw
Analyzed == pc = "record"

\* line 448: not scene_tags or not entities
NothingToRelate == ~Truthy(scene_tags) \/ entities = <<>>

\* C11: whenever the scenario-tag list is empty or the entity list is empty
\* (one of them is enough), analyze_actions returns the empty list and has
\* made no call of the oracle.
C11_NothingToRelateAsksNothing ==
    (Analyzed /\ NothingToRelate) =>
        /\ relations_raw = EmptyList
        /\ CallsOf("action") = {}

\* analyze_actions returned for a paragraph with entities and no scenario
\* tag, and for one with scenario tags and no entity
C11_ReturnedForNoTags == Analyzed /\ ~Truthy(scene_tags) /\ entities # <<>>

C11_ReturnedForNoEntities == Analyzed /\ Truthy(scene_tags) /\ entities = <<>>

---------------------------------------------------------------------------
(* Properties of extract_personal_data, under Spec *)

\* what json.loads makes of the fragment extract_first_json finds in the
\* content the oracle's reply became
LoadedFrom(reply) == ItemsLoaded(extract_first_json(call_deepseek_api(reply).s))

\* the oracle gave no output, or no balanced JSON is recovered, or the
\* recovered text fails to parse, or the parsed value is no list
NoItemList(reply) ==
    \/ ~Truthy(call_deepseek_api(reply))
    \/ LoadedFrom(reply).raised
    \/ LoadedFrom(reply).val.t # "list"

\* the list is made of pairwise-distinct, non-empty, trimmed strings
CleanItems(ents) ==
    /\ \A j, k \in 1..Len(ents) : j # k => ents[j] # ents[k]
    /\ \A k \in 1..Len(ents) : ents[k] # <<>> /\ Strip(ents[k]) = ents[k]

\* C12: whatever the oracle replied, extract_personal_data returns without
\* raising; what it returns is a collection of pairwise-distinct, non-empty,
\* whitespace-trimmed strings, and it is empty whenever the oracle gave no
\* output, no balanced JSON is recovered from the reply, the recovered text
\* fails to parse, or the parsed value is not a list.
C12_ExtractedItemsAreClean ==
    /\ \A f \in failed : f.stage # "entity"
    /\ \A k \in CallsOf("entity") :
         /\ CleanItems(entities)
         /\ NoItemList(calls[k].reply) => entities = <<>>

\* extract_personal_data returned fewer items than the list the oracle
\* wrote: it dropped or merged some
C12_ExtractedFromUntidyList ==
    \E k \in CallsOf("entity") :
      /\ ~NoItemList(calls[k].reply)
      /\ entities # <<>>
      /\ Len(entities) < Len(LoadedFrom(calls[k].reply).val.items)

\* extract_personal_data returned nothing for a reply that is no list
C12_ExtractedNothingFromBadReply ==
    \E k \in CallsOf("entity") :
      /\ Truthy(call_deepseek_api(calls[k].reply))
      /\ NoItemList(calls[k].reply)
      /\ entities = <<>>

---------------------------------------------------------------------------
(* Properties of the calls classify_entities makes, under Spec *)

\* the mapping has a key for every requested item
HasEveryKey(response, ents) ==
    response.t = "dict" /\ \A k \in 1..Len(ents) : HasKey(response, ents[k])

\* classify_entities is in the loop of line 416, about to call the oracle
Classifying == pc = "classify" /\ entities # <<>>

\* the call just made raised out of classify_entities: the recovered value
\* failed strict parsing, and the paragraph is dropped
ClassifyRaised ==
    /\ attempts' = <<>>
    /\ pc' \in {"scenes", "endrow"}
    /\ \E f \in failed' \ failed :
         /\ f.stage = "classify"
         /\ f.row = row /\ f.no = idx
         /\ BadJsonIn(f.reply)

\* the calls made so far: none for an empty list of items, never more than
\* two, and no third one is about to be made
C13_Counts ==
    /\ entities = <<>> => (attempts = <<>> /\ CallsOf("classify") = {})
    /\ Cardinality(CallsOf("classify")) = Len(attempts)
    /\ Len(attempts) <= 2
    /\ Classifying => Len(attempts) <= 1

\* nothing to classify: the stage returns the empty mapping without a call
C13_EmptyStep ==
    (pc = "classify" /\ entities = <<>>) =>
        /\ calls' = calls
        /\ attempts' = attempts
        /\ classified' = EmptyDict
        /\ pc' = "build"

\* the first call returned: a response with every key is the result, any
\* other response leads to the second call, and not yet to the fallback
FirstAttemptReturned ==
    /\ Len(attempts') = 1
    /\ calls' = Append(calls, Call("classify", calls'[Len(calls')].reply))
    /\ IF HasEveryKey(attempts'[1], entities)
       THEN pc' = "build" /\ classified' = attempts'[1]
       ELSE pc' = "classify" /\ entities' = entities /\ classified' = classified

\* the second call returned: its response when it has every key, the
\* fallback otherwise; there is no third call
SecondAttemptReturned ==
    /\ Len(attempts') = 2
    /\ attempts'[1] = attempts[1]
    /\ ~HasEveryKey(attempts[1], entities)
    /\ pc' = "build"
    /\ classified' = IF HasEveryKey(attempts'[2], entities)
                     THEN attempts'[2] ELSE Fallback(entities)

C13_StepAsStated ==
    /\ C13_EmptyStep
    /\ (Classifying /\ attempts = <<>>) => FirstAttemptReturned
    /\ (Classifying /\ Len(attempts) = 1) => SecondAttemptReturned

C13_StepOrRaise ==
    /\ C13_EmptyStep
    /\ (Classifying /\ attempts = <<>>) => (FirstAttemptReturned \/ ClassifyRaised)
    /\ (Classifying /\ Len(attempts) = 1) => (SecondAttemptReturned \/ ClassifyRaised)

---------------------------------------------------------------------------
(* The order of a paragraph's stages, under Spec *)

\* the place of a stage in the body of the try, lines 526-546
StageRank(stage) ==
    CASE stage \in {"scene", "scenes"}       -> 1
      [] stage \in {"entity", "entities"}    -> 2
      [] stage \in {"classify", "build"}     -> 3
      [] stage \in {"action", "actions"}     -> 4
      [] OTHER                               -> 5

StagePcs == {"scenes", "entities", "classify", "build", "actions", "record"}

\* the stages whose call of the oracle returned, in the order of the calls
StagesCalled == [k \in 1..Len(calls) |-> calls[k].stage]

\* the calls were made in the order of the stages, one for the scenarios,
\* one for the entities, and one at most for the actions
CalledInOrder ==
    /\ \A j, k \in 1..Len(calls) : j < k => StageRank(calls[j].stage) <= StageRank(calls[k].stage)
    /\ Cardinality(CallsOf("scene")) <= 1
    /\ Cardinality(CallsOf("entity")) <= 1
    /\ Cardinality(CallsOf("action")) <= 1

\* what has returned when the program is at a stage: every stage before it
\* and no stage after it
C14_ReturnedBefore ==
    /\ CalledInOrder
    /\ pc \notin StagePcs => calls = <<>>
    /\ pc \in StagePcs =>
         /\ \A k \in 1..Len(calls) : StageRank(calls[k].stage) <= StageRank(pc)
         /\ (StageRank(pc) > 1) = (CallsOf("scene") # {})
         /\ (StageRank(pc) > 2) = (CallsOf("entity") # {})
         /\ (pc \in {"build", "actions", "record"} /\ entities # <<>>) =>
                CallsOf("classify") # {}
         /\ pc \in {"scenes", "entities", "classify", "build", "actions"} =>
                CallsOf("action") = {}
         /\ (pc = "record" /\ ~NothingToRelate) => CallsOf("action") # {}

\* a step inside a paragraph goes to the next stage, or stays in the
\* classification for its second attempt; a record is appended only by the
\* step that follows the return of the action stage
C14_StepForward ==
    /\ (pc \in StagePcs /\ pc' \in StagePcs /\ idx' = idx /\ row' = row) =>
         /\ StageRank(pc') >= StageRank(pc)
         /\ StageRank(pc') <= StageRank(pc) + 1
         /\ pc' = pc => pc = "classify"
         /\ (pc = "classify" /\ pc' = "build") \/ pc' = pc \/ StageRank(pc') = StageRank(pc) + 1
    /\ (pc \in StagePcs /\ pc' \in StagePcs /\ idx' # idx) =>
         /\ pc' = "scenes"
         /\ idx' = idx + 1
         /\ calls' = <<>>
    /\ Len(processed_content') > Len(processed_content) =>
         /\ pc = "record"
         /\ Len(processed_content') = Len(processed_content) + 1
         /\ processed_content'[Len(processed_content')].no = idx
         /\ processed_content'[Len(processed_content')].scene_tags = scene_tags
         /\ processed_content'[Len(processed_content')].entities = entity_list
         /\ processed_content'[Len(processed_content')].relations = Relations(relations_raw)

\* C14: in each paragraph the stages run in the order scenario recognition,
\* entity extraction, entity classification, action resolution, record
\* assembly: no stage starts before the one before it has returned, no stage
\* is entered again after a later one has started, and a record is appended
\* only after the four stages have returned.
C14_StagesRunInOrder == []C14_ReturnedBefore /\ [][C14_StepForward]_vars

\* a paragraph is about to be recorded after each of the four stages called
\* the oracle, the classification twice
C14_AllStagesCalled ==
    /\ pc = "record"
    /\ StagesCalled = <<"scene", "entity", "classify", "classify", "action">>

---------------------------------------------------------------------------
(* What split_by_detected_level keeps of the document, under SpecSplit *)

\* the matches of line 376 in the document that was split
MarkersFound == FindIter(min_level, doc, 1)

\* text[:matches[0].start()].strip(): the text before the first marker
Preamble == Strip(Slice(doc, 0, MarkersFound[1].start))

\* the character at place i of the document is in a returned paragraph
InSomeParagraph(i) ==
    \E k \in 1..Len(sparas) : \E a \in 0..(i - 1) :
        Occurs(doc, sparas[k], a) /\ i <= a + Len(sparas[k])

\* C15: when at least one marker of the detected depth is found, no text of
\* the document is lost: non-empty text before the first marker is returned
\* as a paragraph of its own, and every character of the document that is
\* not whitespace is in some returned paragraph.
C15_NoTextIsLostWhenSplit ==
    (spc = "split" /\ MarkersFound # <<>>) =>
        /\ Preamble # <<>> => \E k \in 1..Len(sparas) : sparas[k] = Preamble
        /\ \A i \in 1..Len(doc) : ~IsSpace(doc[i]) => InSomeParagraph(i)

\* a document with text before its first marker was split
C15_SplitWithPreamble ==
    /\ spc = "split"
    /\ MarkersFound # <<>>
    /\ Preamble # <<>>

---------------------------------------------------------------------------
(* Properties of get_scene_tags, under Spec *)

\* a list of two or three elements
IsSceneTuple(t) == t.t = "list" /\ Len(t.items) \in {2, 3}

\* get_scene_tags has returned scene_tags for the current paragraph
ScenesResolved == CallsOf("scene") # {}

\* C16: whatever the oracle replied, every element of the list get_scene_tags
\* returns, and of the scenario-tag list of every record, is a list of two or
\* three elements: any other element of the reply is discarded.
C16_SceneTagsHaveTwoOrThreeLevels ==
    /\ ScenesResolved =>
         \A k \in 1..Len(scene_tags.items) : IsSceneTuple(scene_tags.items[k])
    /\ \A p \in 1..Len(processed_content) :
         \A k \in 1..Len(processed_content[p].scene_tags.items) :
             IsSceneTuple(processed_content[p].scene_tags.items[k])

\* get_scene_tags returned some tags for a reply of which it discarded some
\* elements
C16_ResolvedWithDiscards ==
    \E c \in CallsOf("scene") :
      /\ ~Malformed(calls[c].reply)
      /\ Truthy(call_deepseek_api(calls[c].reply))
      /\ scene_tags.items # <<>>
      /\ Len(scene_tags.items)
           < Len(IterItems(robust_json_loads(call_deepseek_api(calls[c].reply).s).val))

---------------------------------------------------------------------------
(* The categories of the entity entries of the records, under Spec *)

\* a category that is present: a string that is not empty
Present(v) == v.t = "str" /\ v.s # <<>>

\* the entity entries of the paragraphs recorded so far
RecordedEntries ==
    UNION {Range(processed_content[p].entities) : p \in 1..Len(processed_content)}

\* C17: in every recorded paragraph, whatever the oracle replied, each entity
\* entry has a first-level and a second-level category that are present: the
\* pair the oracle gave for the item, or the sentinel pair when none was
\* resolved.
C17_RecordedEntitiesHaveCategories ==
    \A e \in RecordedEntries : Present(e.level1) /\ Present(e.level2)

\* a paragraph with entity entries is recorded
C17_RecordedWithEntities == RecordedEntries # {}

---------------------------------------------------------------------------
(* The order of the flat records, under Spec *)

\* the number of flat records that come before those of paragraph p of
\* result r: one for each triple of the results before r and of the
\* paragraphs of r before p
FlatBefore(r, p) ==
    TotalRelations(SubSeq(results, 1, r - 1))
      + TotalRelations(<<[policy |-> results[r].policy,
                          content |-> SubSeq(results[r].content, 1, p - 1)]>>)

\* the flat record is the one of the triple rel of para_info
FlatIsOf(flat, policy, para_info, rel) ==
    /\ flat.policy = policy
    /\ flat.no = para_info.no
    /\ flat.item = rel.item
    /\ flat.action = rel.relation
    /\ <<flat.scene1, flat.scene2, flat.scene3>> = rel.scene

\* C18: flatten_results emits one flat record for each action triple of the
\* records it is given and no other: as many flat records as triples, in the
\* order of the paragraphs and, within a paragraph, of its triples, each
\* with the ordinal of its paragraph.
C18_OneFlatRecordPerTripleInOrder ==
    /\ pc # "crashed"
    /\ Len(final_results) = TotalRelations(results)
    /\ \A r \in 1..Len(results) : \A p \in 1..Len(results[r].content) :
         \A k \in 1..Len(results[r].content[p].relations) :
            /\ FlatBefore(r, p) + k <= Len(final_results)
            /\ FlatIsOf(final_results[FlatBefore(r, p) + k], results[r].policy,
                        results[r].content[p], results[r].content[p].relations[k])

\* the records of two paragraphs of a document, each with a triple, were
\* flattened
C18_FlattenedTwoParagraphs ==
    \E r \in 1..Len(results) :
      /\ Len(results[r].content) >= 2
      /\ \A p \in 1..Len(results[r].content) : results[r].content[p].relations # <<>>

\* the record of a paragraph with two triples was flattened
C18_FlattenedTwoTriples ==
    \E r \in 1..Len(results) : \E p \in 1..Len(results[r].content) :
      Len(results[r].content[p].relations) >= 2

---------------------------------------------------------------------------
(* Numbering-like tokens inside a line, under SpecSplit *)

\* place i of the text is the start of the document or of a line
AtLineStart(s, i) == i = 1 \/ (i > 1 /\ i <= Len(s) /\ s[i - 1] = "\n")

\* the places of the text that a numbering token at a line start covers
LineStartCover(s) ==
    {k \in 1..Len(s) :
        \E i \in 1..k : \E pat \in 1..4 :
            AtLineStart(s, i) /\ TokenEnd(pat, s, i) > k}

\* the text with the digits of every token inside a line replaced by a
\* letter: it differs from the text by its mid-line tokens only
WithoutMidLineTokens(s) ==
    [k \in 1..Len(s) |->
        IF s[k] \in Digits /\ k \notin LineStartCover(s) THEN "a" ELSE s[k]]

\* the matches split_by_detected_level finds in a text
MarkersOf(s) == FindIter(detect_min_level(s), s, 1)

\* C19: a numbering-like token inside a line is no match: it starts no
\* paragraph and does not change the detected depth, so a document is split
\* at the same markers as the document that differs from it by its mid-line
\* tokens only.
C19_MidLineTokensAreIgnored ==
    spc = "split" =>
        /\ \A k \in 1..Len(MarkersFound) :
              MarkersFound[k].start = 0 \/ doc[MarkersFound[k].start + 1] = "\n"
        /\ min_level = detect_min_level(WithoutMidLineTokens(doc))
        /\ MarkersFound = MarkersOf(WithoutMidLineTokens(doc))

\* a document was split that has a token inside a line and a marker at a
\* line start
C19_SplitWithMidLineToken ==
    /\ spc = "split"
    /\ WithoutMidLineTokens(doc) # doc
    /\ MarkersOf(WithoutMidLineTokens(doc)) # <<>>

---------------------------------------------------------------------------
(* extract_first_json on its own results, under SpecJson *)

\* extract_first_json returned the fragment jres.str for the text
Extracted == jpc \in {"extracted", "loaded"} /\ ~jres.none

\* C20: extract_first_json gives back its own results: for every text for
\* which it returns a fragment r, extract_first_json(r) is r; so the second
\* extraction, inside robust_json_loads, neither changes the fragment nor
\* turns it into nothing, and what is parsed is the fragment itself.
C20_ExtractionIsIdempotent ==
    /\ Extracted => extract_first_json(jres.str) = SomeJson(jres.str)
    /\ jpc = "loaded" => jloaded = json_loads(jres.str)

\* robust_json_loads was given a fragment that extract_first_json cut out of
\* a longer text, between a fence and a comment
C20_LoadedAFragmentOfAFencedText ==
    /\ jpc = "loaded"
    /\ ~jloaded.raised
    /\ Len(jres.str) >= 4
    /\ Len(jtext) > Len(jres.str) + 6

=============================================================================
